---- MODULE Spec2Model ----
(***************************************************************************)
(* Model of the two outreach scripts, linkedin_outreach.py and             *)
(* linkedin_dm.py: the quota ledger kept in a JSON file, the per-target    *)
(* flows driven through the browser, and the run loop of main().           *)
(***************************************************************************)
EXTENDS Integers, Sequences, FiniteSets, TLC

\* ------------------------------------------------------------------ bounds
\* rows of the Excel sheet (targets) a run can load
MaxTargets == 2
\* calendar days the clock can reach (the clock starts on day 1)
MaxDay == 2
\* process invocations in one behaviour
MaxRuns == 2

\* ------------------------------------------------------- program constants
DAILY_LIMIT == 25
DAILY_MESSAGE_LIMIT == 25
DAILY_CONNECTION_LIMIT == 15

Max(a, b) == IF a >= b THEN a ELSE b
Min(a, b) == IF a <= b THEN a ELSE b

Rows == 1..MaxTargets
Scripts == {"linkedin_outreach", "linkedin_dm"}
\* args.mode of linkedin_dm.py; linkedin_outreach.py has no --mode
Modes(s) == IF s = "linkedin_dm" THEN {"dm", "connect", "both"} ELSE {"none"}
\* the counters of the quota record of each script
Types(s) == IF s = "linkedin_dm" THEN {"messages", "connections"} ELSE {"sent"}
Limit(t) ==
  CASE t = "sent" -> DAILY_LIMIT
    [] t = "messages" -> DAILY_MESSAGE_LIMIT
    [] t = "connections" -> DAILY_CONNECTION_LIMIT

VARIABLES
  args,        \* [script, mode, limit]: the resolved command line of the run
  today,       \* date.today()
  quota_file,  \* the JSON file: [kind, date, cnt]; kind "absent", "empty" or "ok"
  excel,       \* the Status column, by row; "" is a row not contacted yet
  session,     \* "ok" or "expired": whether profile pages are served or the auth wall
  run,         \* number of the process invocation
  pc,          \* where main() is
  profiles,    \* the rows load_profiles_from_excel returned
  i,           \* the loop index of main(), from 1
  result,      \* the value the last flow returned
  usage,       \* the record increment_quota / increment_usage holds in memory
  todo,        \* [type, status]: the commit and the status write still to do
  tally,       \* the counters of the summary
  h,           \* history of the run, read by the properties only
  call,        \* [fn, arg]: a helper function called on its own, and its argument
  ret          \* [done, val]: what that call returned

vars == <<args, today, quota_file, excel, session, run, pc, profiles, i, result,
          usage, todo, tally, h, call, ret>>

\* ------------------------------------------------------------ quota ledger
ZeroCnt(s) == [t \in Types(s) |-> 0]
Fresh(s, d) == [kind |-> "ok", date |-> d, cnt |-> ZeroCnt(s)]

\* json.load of an empty (truncated) file raises
LoadRaises(f) == f.kind = "empty"

\* linkedin_outreach.py load_quota; f is the file, d is date.today()
load_quota(f, d) ==
  IF f.kind = "ok"
    THEN IF f.date # d THEN Fresh("linkedin_outreach", d) ELSE f
    ELSE Fresh("linkedin_outreach", d)

\* load_usage without the reset on a new day
load_usage_no_reset(f, d) == IF f.kind = "ok" THEN f ELSE Fresh("linkedin_dm", d)

\* linkedin_dm.py load_usage
load_usage(f, d) ==
  IF f.kind = "ok"
    THEN IF f.date # d THEN Fresh("linkedin_dm", d) ELSE f
    ELSE Fresh("linkedin_dm", d)

Load(s, f, d) == IF s = "linkedin_dm" THEN load_usage(f, d) ELSE load_quota(f, d)

\* linkedin_outreach.py get_remaining_quota()
get_remaining_quota_sent(f, d) == Max(0, DAILY_LIMIT - load_quota(f, d).cnt["sent"])

\* get_remaining_quota without the max(0, ...)
get_remaining_quota_unclamped(f, d, action_type) ==
  CASE action_type = "messages" -> DAILY_MESSAGE_LIMIT - load_usage(f, d).cnt["messages"]
    [] action_type = "connections" ->
         DAILY_CONNECTION_LIMIT - load_usage(f, d).cnt["connections"]
    [] OTHER -> 0

\* linkedin_dm.py get_remaining_quota(action_type)
get_remaining_quota(f, d, action_type) ==
  CASE action_type = "messages" ->
         Max(0, DAILY_MESSAGE_LIMIT - load_usage(f, d).cnt["messages"])
    [] action_type = "connections" ->
         Max(0, DAILY_CONNECTION_LIMIT - load_usage(f, d).cnt["connections"])
    [] OTHER -> 0

Remaining(s, f, d, t) ==
  IF s = "linkedin_dm" THEN get_remaining_quota(f, d, t) ELSE get_remaining_quota_sent(f, d)

\* increment_quota with an assignment in place of the increment
increment_quota_assign(q) == [q EXCEPT !.cnt["sent"] = 1]

\* the in-memory half of increment_quota: quota['sent'] += 1
increment_quota(q) == [q EXCEPT !.cnt["sent"] = @ + 1]

\* increment_usage that writes a record holding the committed type only
increment_usage_one_type(q, action_type) ==
  [q EXCEPT !.cnt = [t \in DOMAIN q.cnt |-> IF t = action_type THEN q.cnt[t] + 1 ELSE 0]]

\* increment_usage that adds two
increment_usage_twice(q, action_type) == [q EXCEPT !.cnt[action_type] = @ + 2]

\* the in-memory half of increment_usage: usage[action_type] = usage.get(action_type, 0) + count
increment_usage(q, action_type) == [q EXCEPT !.cnt[action_type] = @ + 1]

Incremented(s, q, t) == IF s = "linkedin_dm" THEN increment_usage(q, t) ELSE increment_quota(q)

\* open(path, 'w') of save_quota / save_usage: the file is truncated at once
Truncated(f) == [f EXCEPT !.kind = "empty"]

\* ------------------------------------------------------------------ flows
\* What a flow hands back: the returned string, the browser steps it made, and
\* whether it left by an exception instead of returning.
Ret(r, tr) == [result |-> r, trace |-> tr, raised |-> FALSE]
Raise(tr) == [result |-> "exception", trace |-> tr, raised |-> TRUE]

\* A page as send_dm sees it. getFault: driver.get raises; wall: the auth wall is
\* served; fault: the step at which a webdriver call inside the try raises.
DmFaults == {"none", "probe", "click", "type", "send"}
DmPagesAll ==
  [getFault : BOOLEAN, wall : BOOLEAN, fault : DmFaults, msgSpan : BOOLEAN,
   msgAria : BOOLEAN, connectSpan : BOOLEAN, input : BOOLEAN, send : BOOLEAN]
\* pages that differ only in what the flow never reads are taken once
DmPages ==
  {p \in DmPagesAll :
     /\ (p.getFault \/ p.wall) =>
          (p.fault = "none" /\ ~p.msgSpan /\ ~p.msgAria /\ ~p.connectSpan /\ ~p.input /\ ~p.send)
     /\ ~(p.getFault /\ p.wall)
     /\ p.msgSpan => ~p.msgAria
     /\ (p.msgSpan \/ p.msgAria) => ~p.connectSpan
     /\ ~(p.msgSpan \/ p.msgAria) => (~p.input /\ ~p.send /\ p.fault \in {"none", "probe"})
     /\ ~p.input => (~p.send /\ p.fault \in {"none", "probe", "click"})
     /\ p.fault = "probe" => (~p.msgSpan /\ ~p.msgAria /\ ~p.connectSpan)}

\* send_dm without the Enter key of lines 279-283: no send button is a failure
send_dm_no_enter(p) ==
  IF p.getFault THEN Raise(<<"get">>)
  ELSE IF p.fault = "probe" THEN Ret("error", <<"get">>)
  ELSE IF ~(p.msgSpan \/ p.msgAria)
    THEN IF p.connectSpan THEN Ret("not_connected", <<"get">>)
         ELSE Ret("no_message_button", <<"get">>)
  ELSE IF p.fault = "click" THEN Ret("error", <<"get">>)
  ELSE IF ~p.input THEN Ret("no_message_input", <<"get", "click_message">>)
  ELSE IF p.fault = "type" THEN Ret("error", <<"get", "click_message">>)
  ELSE IF p.fault = "send" THEN Ret("error", <<"get", "click_message", "type">>)
  ELSE IF ~p.send THEN Ret("no_send_button", <<"get", "click_message", "type">>)
  ELSE Ret("sent", <<"get", "click_message", "type", "click_send">>)

\* linkedin_dm.py send_dm
send_dm(p) ==
  IF p.getFault THEN Raise(<<"get">>)
  ELSE IF p.fault = "probe" THEN Ret("error", <<"get">>)
  ELSE IF ~(p.msgSpan \/ p.msgAria)
    THEN IF p.connectSpan THEN Ret("not_connected", <<"get">>)
         ELSE Ret("no_message_button", <<"get">>)
  ELSE IF p.fault = "click" THEN Ret("error", <<"get">>)
  ELSE IF ~p.input THEN Ret("no_message_input", <<"get", "click_message">>)
  ELSE IF p.fault = "type" THEN Ret("error", <<"get", "click_message">>)
  ELSE IF ~p.send
    THEN IF p.fault = "send" THEN Ret("error", <<"get", "click_message", "type">>)
         ELSE Ret("sent_enter", <<"get", "click_message", "type", "submit_enter">>)
  ELSE IF p.fault = "send" THEN Ret("error", <<"get", "click_message", "type">>)
  ELSE Ret("sent", <<"get", "click_message", "type", "click_send">>)

\* A page as send_connection_with_note sees it.
ConnFaults == {"none", "probe", "connect", "note", "send"}
ConnPagesAll ==
  [getFault : BOOLEAN, wall : BOOLEAN, fault : ConnFaults, msg : BOOLEAN,
   pending : BOOLEAN, connect : BOOLEAN, more : BOOLEAN, menu : BOOLEAN,
   follow : BOOLEAN, addNote : BOOLEAN, textarea : BOOLEAN, send : BOOLEAN]
ConnPages ==
  {p \in ConnPagesAll :
     /\ (p.getFault \/ p.wall \/ p.fault = "probe" \/ p.pending) =>
          (~p.connect /\ ~p.more /\ ~p.menu /\ ~p.addNote /\ ~p.textarea /\ ~p.send)
     /\ p.msg => (~p.more /\ ~p.menu /\ ~p.textarea)
     /\ (p.getFault \/ p.wall) => (p.fault = "none" /\ ~p.msg /\ ~p.pending)
     /\ ~(p.getFault /\ p.wall)
     /\ p.fault = "probe" => (~p.msg /\ ~p.pending)
     /\ p.msg => (~p.pending /\ p.fault = "none")
     /\ p.pending => p.fault = "none"
     /\ p.connect => (~p.more /\ ~p.menu)
     /\ ~p.more => ~p.menu
     /\ p.fault = "connect" => (p.connect \/ p.more) /\ ~p.addNote /\ ~p.textarea /\ ~p.send
     /\ p.fault = "note" => p.addNote /\ ~p.textarea /\ ~p.send
     /\ ~p.addNote => ~p.textarea}

\* the steps of send_connection_with_note up to the modal: the connect button,
\* else the More menu and its Connect item (lines 326-344)
ConnectSteps(p) ==
  IF p.connect THEN <<"click_connect">>
  ELSE IF p.more
    THEN IF p.menu THEN <<"click_more", "click_menu_connect">> ELSE <<"click_more">>
  ELSE <<>>

\* the note steps of the modal (lines 347-356)
NoteSteps(p) ==
  IF p.addNote
    THEN IF p.textarea THEN <<"click_add_note", "type_note">> ELSE <<"click_add_note">>
  ELSE <<>>

\* send_connection_with_note without the check for the Message button
send_connection_with_note_no_probe(p) ==
  IF p.getFault THEN Raise(<<"get">>)
  ELSE IF p.fault = "probe" THEN Ret("error", <<"get">>)
  ELSE IF p.pending THEN Ret("pending", <<"get">>)
  ELSE IF p.fault = "connect" THEN Ret("error", <<"get">>)
  ELSE IF p.fault = "note" THEN Ret("error", <<"get">> \o ConnectSteps(p))
  ELSE IF p.fault = "send" THEN Ret("error", <<"get">> \o ConnectSteps(p) \o NoteSteps(p))
  ELSE IF p.send
    THEN Ret("sent", <<"get">> \o ConnectSteps(p) \o NoteSteps(p) \o <<"click_send">>)
  ELSE Ret("no_send_button", <<"get">> \o ConnectSteps(p) \o NoteSteps(p))

\* linkedin_dm.py send_connection_with_note
send_connection_with_note(p) ==
  IF p.getFault THEN Raise(<<"get">>)
  ELSE IF p.fault = "probe" THEN Ret("error", <<"get">>)
  ELSE IF p.msg THEN Ret("already_connected", <<"get">>)
  ELSE IF p.pending THEN Ret("pending", <<"get">>)
  ELSE IF p.fault = "connect" THEN Ret("error", <<"get">>)
  ELSE IF p.fault = "note" THEN Ret("error", <<"get">> \o ConnectSteps(p))
  ELSE IF p.fault = "send" THEN Ret("error", <<"get">> \o ConnectSteps(p) \o NoteSteps(p))
  ELSE IF p.send
    THEN Ret("sent", <<"get">> \o ConnectSteps(p) \o NoteSteps(p) \o <<"click_send">>)
  ELSE Ret("no_send_button", <<"get">> \o ConnectSteps(p) \o NoteSteps(p))

\* A page as linkedin_outreach.py send_direct_message sees it. urlFault:
\* driver.current_url (read outside any try) raises; blocked: the title is one of the
\* blocked-page titles; connect: one of the methods 1-5 finds the button;
\* connect7: the generic search of method 7 finds it.
OutFaults == {"none", "probe", "menu", "click", "modal"}
OutPagesAll ==
  [getFault : BOOLEAN, urlFault : BOOLEAN, wall : BOOLEAN, blocked : BOOLEAN,
   fault : OutFaults, msg : BOOLEAN, pending : BOOLEAN, connect : BOOLEAN,
   more : BOOLEAN, menu : BOOLEAN, connect7 : BOOLEAN, follow : BOOLEAN,
   addNote : BOOLEAN, textarea : BOOLEAN, send : BOOLEAN]
OutClicks(p) == p.connect \/ (p.more /\ p.menu /\ p.fault # "menu") \/ p.connect7
OutPages ==
  {p \in OutPagesAll :
     /\ ~(p.getFault /\ p.urlFault) /\ ~(p.getFault /\ p.wall) /\ ~(p.urlFault /\ p.wall)
     /\ (p.getFault \/ p.urlFault \/ p.wall) =>
          (~p.blocked /\ p.fault = "none" /\ ~p.msg /\ ~p.pending /\ ~p.connect /\ ~p.more)
     /\ (p.fault = "probe" \/ p.pending) => (~p.connect /\ ~p.more)
     /\ p.msg => (~p.more /\ ~p.connect7 /\ ~p.follow /\ ~p.textarea)
     /\ p.fault = "probe" => (~p.msg /\ ~p.pending)
     /\ p.msg => (~p.pending /\ p.fault = "none")
     /\ p.pending => p.fault = "none"
     /\ p.connect => (~p.more /\ ~p.menu /\ ~p.connect7)
     /\ ~p.more => (~p.menu /\ p.fault # "menu")
     /\ (p.more /\ p.menu /\ p.fault # "menu") => ~p.connect7
     /\ OutClicks(p) => ~p.follow
     /\ ~OutClicks(p) => (~p.addNote /\ ~p.textarea /\ ~p.send /\ p.fault \notin {"click", "modal"})
     /\ p.fault = "click" => (~(p.more /\ p.menu) /\ ~p.addNote /\ ~p.textarea /\ ~p.send)
     /\ p.fault = "modal" => (~p.addNote /\ ~p.textarea /\ ~p.send)
     /\ ~p.addNote => ~p.textarea}

\* linkedin_outreach.py _handle_connect_modal, entered after the steps tr. The
\* message is never empty (main puts DEFAULT_MESSAGE for an empty --message).
handle_connect_modal(p, tr) ==
  IF p.fault = "modal" THEN Ret("modal_error", tr)
  ELSE IF p.send THEN Ret("sent", tr \o NoteSteps(p) \o <<"click_send">>)
  ELSE Ret("no_send_button", tr \o NoteSteps(p))

\* lines 349-363 of send_direct_message: the connect button found, or not
ClickConnect(p, tr, found) ==
  IF ~found
    THEN IF p.follow THEN Ret("follow_only", tr) ELSE Ret("no_connect_button", tr)
  ELSE IF p.fault = "click" THEN Ret("click_error", tr)
  ELSE handle_connect_modal(p, tr \o <<"click_connect">>)

\* linkedin_outreach.py send_direct_message
send_direct_message(p) ==
  IF p.getFault THEN Ret("page_load_error", <<"get">>)
  ELSE IF p.urlFault THEN Raise(<<"get">>)
  ELSE IF p.wall THEN Ret("session_expired", <<"get">>)
  ELSE LET tr == IF p.blocked THEN <<"get", "refresh">> ELSE <<"get">> IN
    IF p.fault = "probe" THEN Ret("error", tr)
    ELSE IF p.msg THEN Ret("already_connected", tr)
    ELSE IF p.pending THEN Ret("pending", tr)
    ELSE IF p.connect THEN ClickConnect(p, tr, TRUE)
    ELSE IF ~p.more THEN ClickConnect(p, tr, p.connect7)
    ELSE IF p.fault = "menu" THEN ClickConnect(p, tr, p.connect7)
    ELSE IF p.menu
      THEN handle_connect_modal(p, tr \o <<"click_more", "click_menu_connect">>)
    ELSE ClickConnect(p, tr \o <<"click_more">>, p.connect7)

\* The relationship the controls of a page show, as each flow probes it: a message
\* control, a pending control, a connect control (direct or in the More menu), a
\* follow control, or none of them; "unknown" when the page is not served or the
\* probe itself fails.
RelationDm(p) ==
  IF p.getFault \/ p.wall \/ p.fault = "probe" THEN "unknown"
  ELSE IF p.msgSpan \/ p.msgAria THEN "message"
  ELSE IF p.connectSpan THEN "connect"
  ELSE "none"
RelationConn(p) ==
  IF p.getFault \/ p.wall \/ p.fault # "none" THEN "unknown"
  ELSE IF p.msg THEN "message"
  ELSE IF p.pending THEN "pending"
  ELSE IF p.connect \/ (p.more /\ p.menu) THEN "connect"
  ELSE IF p.follow THEN "follow"
  ELSE "none"
RelationOut(p) ==
  IF p.getFault \/ p.urlFault \/ p.wall \/ p.fault # "none" THEN "unknown"
  ELSE IF p.msg THEN "message"
  ELSE IF p.pending THEN "pending"
  ELSE IF p.connect \/ (p.more /\ p.menu) \/ p.connect7 THEN "connect"
  ELSE IF p.follow THEN "follow"
  ELSE "none"
Relation(flow, p) ==
  CASE flow = "send_dm" -> RelationDm(p)
    [] flow = "send_connection_with_note" -> RelationConn(p)
    [] OTHER -> RelationOut(p)

\* ------------------------------------------------------------- record store
RowSeq == [k \in Rows |-> k]
Head_(q, n) == SubSeq(q, 1, Min(n, Len(q)))

\* linkedin_dm.py load_profiles_from_excel, line 88
already_done == {"sent", "messaged", "dm_sent", "message_sent"}

\* load_profiles_from_excel without .head(limit)
load_profiles_from_excel_unlimited(s, xl, lim) ==
  LET Unsent(r) == IF s = "linkedin_dm" THEN xl[r] \notin already_done ELSE xl[r] = ""
  IN SelectSeq(RowSeq, Unsent)

\* load_profiles_from_excel: the first `lim` rows still to contact, in sheet order.
\* linkedin_outreach.py takes the rows with an empty Status, linkedin_dm.py the rows
\* whose Status is not in already_done. Every row holds a profile URL.
load_profiles_from_excel(s, xl, lim) ==
  LET Unsent(r) == IF s = "linkedin_dm" THEN xl[r] \notin already_done ELSE xl[r] = ""
  IN Head_(SelectSeq(RowSeq, Unsent), lim)

\* ------------------------------------------------------------------ main()
\* the check of line 496 without 'sent_enter'
DmSentResultsClickOnly == {"sent"}

\* results main() of linkedin_dm.py takes as a delivered message (lines 496, 513)
DmSentResults == {"sent", "sent_enter"}
\* results after which mode 'both' goes on to the connection flow (line 501)
DmFallbackResults == {"not_connected", "no_message_button"}
\* f'failed:{result[:20]}': no result string of the flows is longer than 20
FailedStatus(r) == "failed:" \o r

\* the action type main() gates the run on (linkedin_dm.py line 407)
GateType(a) ==
  IF a.script = "linkedin_dm"
    THEN IF a.mode \in {"dm", "both"} THEN "messages" ELSE "connections"
    ELSE "sent"

\* What main() does with a result: `next` is where it goes on ("commit": the
\* ledger commit, then the status writes; "status": the status writes only;
\* "conn", "retry": another flow for the same target; "stop": break), `type` the
\* action type it commits, `writes` the statuses it hands to update_excel_status,
\* `bump` the summary counter it increments.
Out(n, t, w, b) == [next |-> n, type |-> t, writes |-> w, bump |-> b]
NoTodo == Out("", "", <<>>, "")

\* lines 548-562 with `if` in place of the first `elif`: a sent result falls
\* through to the else branch as well
outreach_outcome_fallthrough(res) ==
  CASE res = "sent" -> Out("commit", "sent", <<"sent", "failed">>, "success")
    [] res = "not_connected" -> Out("status", "", <<"not_connected">>, "")
    [] res = "session_expired" -> Out("stop", "", <<>>, "")
    [] OTHER -> Out("status", "", <<"failed">>, "failures")

\* linkedin_outreach.py main, lines 548-562
outreach_outcome(res) ==
  CASE res = "sent" -> Out("commit", "sent", <<"sent">>, "success")
    [] res = "not_connected" -> Out("status", "", <<"not_connected">>, "")
    [] res = "session_expired" -> Out("stop", "", <<>>, "")
    [] OTHER -> Out("status", "", <<"failed">>, "failures")

\* lines 496-530 with the connection flow tried after any result that is not sent
dm_outcome_any_failure(res, mode) ==
  IF res \in DmSentResults THEN Out("commit", "messages", <<"dm_sent">>, "success")
  ELSE IF mode = "both" THEN Out("conn", "", <<>>, "")
  ELSE Out("status", "", <<FailedStatus(res)>>, "failures")

\* linkedin_dm.py main, lines 496-530: the result of the first send_dm
dm_outcome(res, mode) ==
  IF res \in DmSentResults THEN Out("commit", "messages", <<"dm_sent">>, "success")
  ELSE IF res \in DmFallbackResults /\ mode = "both" THEN Out("conn", "", <<>>, "")
  ELSE Out("status", "", <<FailedStatus(res)>>, "failures")

\* linkedin_dm.py main, lines 504-526: the result of send_connection_with_note in mode 'both'
both_connect_outcome(res) ==
  CASE res = "sent" -> Out("commit", "connections", <<"connect_sent">>, "connect")
    [] res = "already_connected" -> Out("retry", "", <<>>, "")
    [] res = "pending" -> Out("status", "", <<"pending">>, "")
    [] OTHER -> Out("status", "", <<FailedStatus(res)>>, "failures")

\* lines 513-519 with send_dm tried again after a retry that was not sent
retry_outcome_again(res) ==
  IF res \in DmSentResults THEN Out("commit", "messages", <<"dm_sent">>, "success")
  ELSE Out("retry", "", <<>>, "")

\* linkedin_dm.py main, lines 513-519: the result of the second send_dm
retry_outcome(res) ==
  IF res \in DmSentResults THEN Out("commit", "messages", <<"dm_sent">>, "success")
  ELSE Out("status", "", <<"connected_no_dm">>, "")

\* linkedin_dm.py main, lines 536-550: mode 'connect'
connect_outcome(res) ==
  CASE res = "sent" -> Out("commit", "connections", <<"connect_sent">>, "connect")
    [] res = "already_connected" -> Out("status", "", <<"already_connected">>, "")
    [] res = "pending" -> Out("status", "", <<"pending">>, "")
    [] OTHER -> Out("status", "", <<FailedStatus(res)>>, "failures")

ZeroTally == [success |-> 0, connect |-> 0, failures |-> 0]
Bump(tl, b) == IF b = "" THEN tl ELSE [tl EXCEPT ![b] = @ + 1]
Terminal == {"done", "exited", "aborted", "crashed"}
\* the status written without waiting for the ledger commit
NextPc_status_first(o) ==
  CASE o.next = "commit" -> "status"
    [] o.next = "stop" -> "summary"
    [] OTHER -> o.next

NextPc(o) ==
  CASE o.next = "commit" -> "commit_load"
    [] o.next = "stop" -> "summary"
    [] OTHER -> o.next

\* the view of the ledger a load gives: the day and the counts
View(q) == [day |-> q.date, cnt |-> q.cnt]

\* results that mean an action was delivered, and the action type of each flow
SentResult(flow, res) ==
  IF flow = "send_dm" THEN res \in {"sent", "sent_enter"} ELSE res = "sent"
FlowType(flow) ==
  CASE flow = "send_dm" -> "messages"
    [] flow = "send_connection_with_note" -> "connections"
    [] OTHER -> "sent"

\* the commit under way or last made: the action type, the counts loaded before
\* the increment, the day of the load, and whether the write is finished
NoCommit == [type |-> "", pre |-> <<>>, day |-> 0, done |-> FALSE]

\* no helper is called on its own during a run of main()
NoCall == [fn |-> "", arg |-> <<>>]
NoRet == [done |-> FALSE, val |-> <<>>]

InitHistory(s, f) ==
  [nSent |-> ZeroCnt(s), startCnt |-> ZeroCnt(s), rolled |-> FALSE, flows |-> <<>>,
   attempted |-> <<>>, writes |-> 0, terminals |-> 0, recorded |-> {}, wall |-> 0,
   trace |-> <<>>, seen |-> View(f), commit |-> NoCommit, crash |-> NoCommit,
   crashPoint |-> "", delayed |-> FALSE, summary |-> FALSE, cause |-> "", probe |-> "",
   commits |-> 0]

\* The quota file a run can find: none, a record of an earlier day (day 0) holding
\* any count, here one above the limit, or a record of today with a count of zero,
\* one below the limit, or the limit.
InitCounts(t) == {0, Limit(t) - 1, Limit(t)}
InitFiles(s) ==
  {[kind |-> "absent", date |-> 0, cnt |-> ZeroCnt(s)],
   [kind |-> "ok", date |-> 0, cnt |-> [t \in Types(s) |-> Limit(t) + 1]]}
    \cup [kind : {"ok"}, date : {1},
          cnt : {c \in [Types(s) -> UNION {InitCounts(t) : t \in Types(s)}] :
                   \A t \in Types(s) : c[t] \in InitCounts(t)}]

Init ==
  /\ args \in {a \in [script : Scripts, mode : {"none", "dm", "connect", "both"}, limit : 1..MaxTargets] :
                 a.mode \in Modes(a.script)}
  /\ today = 1
  /\ quota_file \in InitFiles(args.script)
  /\ excel = [r \in Rows |-> ""]
  /\ session = "ok"
  /\ run = 1
  /\ pc = "start"
  /\ profiles = <<>>
  /\ i = 0
  /\ result = ""
  /\ usage = Fresh(args.script, 0)
  /\ todo = NoTodo
  /\ tally = ZeroTally
  /\ h = InitHistory(args.script, quota_file)
  /\ call = NoCall
  /\ ret = NoRet

\* the top of main(): the quota gate, the load of the sheet, the login
Start ==
  /\ pc = "start"
  /\ \E logged_in \in BOOLEAN :
       IF LoadRaises(quota_file)
         THEN /\ pc' = "aborted"
              /\ UNCHANGED <<profiles, i, h, session>>
       ELSE LET q == Load(args.script, quota_file, today)
                remaining == Remaining(args.script, quota_file, today, GateType(args))
                profs == load_profiles_from_excel(args.script, excel, Min(args.limit, remaining))
                h1 == [h EXCEPT !.startCnt = q.cnt, !.seen = View(q)]
                why == IF remaining = 0 THEN "quota"
                       ELSE IF profs = <<>> THEN "empty" ELSE "login"
            IN IF remaining = 0 \/ profs = <<>> \/ ~logged_in
                 THEN /\ pc' = "exited"
                      /\ h' = [h1 EXCEPT !.cause = why]
                      /\ UNCHANGED <<profiles, i, session>>
                 ELSE /\ pc' = "loop"
                      /\ profiles' = profs
                      /\ i' = 1
                      /\ session' = "ok"
                      /\ h' = h1
  /\ UNCHANGED <<call, ret, args, today, quota_file, excel, run, result, usage, todo, tally>>

\* the head of the for loop; linkedin_outreach.py checks the quota again (line 530)
Loop ==
  /\ pc = "loop"
  /\ IF i > Len(profiles)
       THEN pc' = "summary" /\ h' = [h EXCEPT !.cause = "drained"]
     ELSE IF args.script = "linkedin_outreach" /\ get_remaining_quota_sent(quota_file, today) = 0
       THEN pc' = "summary" /\ h' = [h EXCEPT !.seen = View(load_quota(quota_file, today)),
                                               !.cause = "quota"]
     ELSE /\ pc' = "flow"
          /\ h' = [h EXCEPT !.attempted = Append(@, profiles[i]),
                            !.seen = IF args.script = "linkedin_outreach"
                                       THEN View(load_quota(quota_file, today)) ELSE @]
  /\ UNCHANGED <<call, ret, args, today, quota_file, excel, session, run, profiles, i, result,
                 usage, todo, tally>>

\* linkedin_dm.py main, lines 552-556: the except block of one profile
handler_outcome == Out("handler", "", <<"error">>, "failures")

\* a flow has returned r on page p and main() has taken the branch o
AfterFlow(flow, r, o, p) ==
  /\ result' = r.result
  /\ session' = IF p.wall THEN "expired" ELSE session
  /\ todo' = o
  /\ tally' = Bump(tally, o.bump)
  /\ pc' = NextPc(o)
  /\ h' = [h EXCEPT !.flows = Append(@, flow),
                    !.trace = @ \o r.trace,
                    !.wall = IF p.wall /\ @ = 0 THEN profiles[i] ELSE @,
                    !.nSent = IF SentResult(flow, r.result)
                                THEN [@ EXCEPT ![FlowType(flow)] = @ + 1] ELSE @,
                    !.terminals = IF o.next \in {"conn", "retry"} THEN @ ELSE @ + 1,
                    !.cause = IF o.next = "stop" THEN "session" ELSE @,
                    !.probe = Relation(flow, p)]
  /\ UNCHANGED <<call, ret, args, today, quota_file, excel, run, profiles, i, usage>>

\* linkedin_outreach.py main, lines 543-562
OutreachFlow ==
  /\ pc = "flow"
  /\ args.script = "linkedin_outreach"
  /\ \E p \in OutPages :
       /\ session = "expired" => p.wall
       /\ LET r == send_direct_message(p)
              res == IF r.raised THEN "browser_error" ELSE r.result
          IN AfterFlow("send_direct_message", [r EXCEPT !.result = res],
                       outreach_outcome(res), p)

\* linkedin_dm.py main, lines 492-530: the first send_dm of modes 'dm' and 'both'
DmFlow ==
  /\ pc = "flow"
  /\ args.script = "linkedin_dm"
  /\ args.mode \in {"dm", "both"}
  /\ \E p \in DmPages :
       /\ session = "expired" => p.wall
       /\ LET r == send_dm(p)
          IN AfterFlow("send_dm", r,
                       IF r.raised THEN handler_outcome ELSE dm_outcome(r.result, args.mode), p)

\* linkedin_dm.py main, lines 532-550: mode 'connect'
ConnectFlow ==
  /\ pc = "flow"
  /\ args.script = "linkedin_dm"
  /\ args.mode = "connect"
  /\ \E p \in ConnPages :
       /\ session = "expired" => p.wall
       /\ LET r == send_connection_with_note(p)
          IN AfterFlow("send_connection_with_note", r,
                       IF r.raised THEN handler_outcome ELSE connect_outcome(r.result), p)

\* linkedin_dm.py main, lines 501-526: the connection flow of mode 'both'
BothConnect ==
  /\ pc = "conn"
  /\ \E p \in ConnPages :
       /\ session = "expired" => p.wall
       /\ LET r == send_connection_with_note(p)
          IN AfterFlow("send_connection_with_note", r,
                       IF r.raised THEN handler_outcome ELSE both_connect_outcome(r.result), p)

\* linkedin_dm.py main, lines 509-519: the second send_dm of mode 'both'
RetryDm ==
  /\ pc = "retry"
  /\ \E p \in DmPages :
       /\ session = "expired" => p.wall
       /\ LET r == send_dm(p)
          IN AfterFlow("send_dm", r,
                       IF r.raised THEN handler_outcome ELSE retry_outcome(r.result), p)

\* an exception outside a flow, while main() handles one profile: linkedin_dm.py
\* goes to the except block of the profile (line 552), linkedin_outreach.py to the
\* except block of main (line 589), which exits
Raised ==
  IF args.script = "linkedin_dm"
    THEN /\ pc' = "handler"
         /\ todo' = handler_outcome
         /\ tally' = Bump(tally, "failures")
         /\ h' = [h EXCEPT !.terminals = @ + 1]
    ELSE /\ pc' = "aborted"
         /\ UNCHANGED <<todo, tally, h>>

\* increment_quota / increment_usage up to the save: load, then add one
CommitLoad ==
  /\ pc = "commit_load"
  /\ IF LoadRaises(quota_file)
       THEN Raised /\ UNCHANGED usage
       ELSE LET q == Load(args.script, quota_file, today)
            IN /\ usage' = Incremented(args.script, q, todo.type)
               /\ pc' = "commit_open"
               /\ h' = [h EXCEPT !.seen = View(q), !.trace = <<>>, !.probe = "",
                                 !.crash = NoCommit,
                                 !.commit = [type |-> todo.type, pre |-> q.cnt,
                                             day |-> today, done |-> FALSE]]
               /\ UNCHANGED <<todo, tally>>
  /\ UNCHANGED <<call, ret, args, today, quota_file, excel, session, run, profiles, i, result>>

\* save_quota / save_usage: open(path, 'w')
CommitOpen ==
  /\ pc = "commit_open"
  /\ quota_file' = Truncated(quota_file)
  /\ pc' = "commit_dump"
  /\ UNCHANGED <<call, ret, args, today, excel, session, run, profiles, i, result, usage, todo,
                 tally, h>>

\* a commit whose save writes the counts as they were loaded
CommitDump_counts_as_loaded ==
  /\ pc = "commit_dump"
  /\ quota_file' = [usage EXCEPT !.cnt = h.commit.pre]
  /\ pc' = "status"
  /\ h' = [h EXCEPT !.commit.done = TRUE, !.seen = View(usage), !.commits = @ + 1]
  /\ UNCHANGED <<call, ret, args, today, excel, session, run, profiles, i, result, usage, todo, tally>>

\* save_quota / save_usage: json.dump and the close of the file
CommitDump ==
  /\ pc = "commit_dump"
  /\ quota_file' = usage
  /\ pc' = "status"
  /\ h' = [h EXCEPT !.commit.done = TRUE, !.seen = View(usage), !.commits = @ + 1]
  /\ UNCHANGED <<call, ret, args, today, excel, session, run, profiles, i, result, usage, todo, tally>>

\* update_excel_status for the profile of this iteration
Status ==
  /\ pc \in {"status", "handler"}
  /\ todo.writes # <<>>
  /\ excel' = [excel EXCEPT ![profiles[i]] = Head(todo.writes)]
  /\ todo' = [todo EXCEPT !.writes = Tail(@)]
  /\ pc' = IF Len(todo.writes) > 1 THEN pc ELSE "delay"
  /\ h' = [h EXCEPT !.writes = @ + 1, !.recorded = @ \cup {profiles[i]}, !.trace = <<>>,
                    !.probe = "",
                    !.commit = NoCommit]
  /\ UNCHANGED <<call, ret, args, today, quota_file, session, run, profiles, i, result, usage, tally>>

\* the end of an iteration that does not move on to the next profile
Delay_same_profile ==
  /\ pc = "delay"
  /\ LET sleeps == /\ i < Len(profiles)
                   /\ args.script = "linkedin_outreach" =>
                        get_remaining_quota_sent(quota_file, today) > 0
     IN h' = [h EXCEPT !.delayed = sleeps, !.flows = <<>>, !.trace = <<>>, !.probe = "",
                       !.commits = 0, !.writes = 0, !.terminals = 0, !.commit = NoCommit,
                       !.seen = IF args.script = "linkedin_outreach" /\ i < Len(profiles)
                                  THEN View(load_quota(quota_file, today)) ELSE @]
  /\ i' = i
  /\ pc' = "loop"
  /\ result' = ""
  /\ UNCHANGED <<call, ret, args, today, quota_file, excel, session, run, profiles, usage, todo, tally>>

\* lines 564-568 without the condition: a sleep after every attempt
Delay_after_every_attempt ==
  /\ pc = "delay"
  /\ h' = [h EXCEPT !.delayed = TRUE, !.flows = <<>>, !.trace = <<>>, !.probe = "",
                    !.commits = 0, !.writes = 0, !.terminals = 0, !.commit = NoCommit,
                    !.seen = IF args.script = "linkedin_outreach" /\ i < Len(profiles)
                               THEN View(load_quota(quota_file, today)) ELSE @]
  /\ i' = i + 1
  /\ pc' = "loop"
  /\ result' = ""
  /\ UNCHANGED <<call, ret, args, today, quota_file, excel, session, run, profiles, usage, todo, tally>>

\* the random delay at the end of the loop body (linkedin_outreach.py line 565,
\* linkedin_dm.py line 559)
Delay ==
  /\ pc = "delay"
  /\ LET sleeps == /\ i < Len(profiles)
                   /\ args.script = "linkedin_outreach" =>
                        get_remaining_quota_sent(quota_file, today) > 0
     IN h' = [h EXCEPT !.delayed = sleeps, !.flows = <<>>, !.trace = <<>>, !.probe = "",
                       !.commits = 0, !.writes = 0, !.terminals = 0, !.commit = NoCommit,
                       !.seen = IF args.script = "linkedin_outreach" /\ i < Len(profiles)
                                  THEN View(load_quota(quota_file, today)) ELSE @]
  /\ i' = i + 1
  /\ pc' = "loop"
  /\ result' = ""
  /\ UNCHANGED <<call, ret, args, today, quota_file, excel, session, run, profiles, usage, todo, tally>>

\* a summary whose load of the ledger saves the record it returns
Summary_saving_load ==
  /\ pc = "summary"
  /\ pc' = "done"
  /\ h' = [h EXCEPT !.summary = TRUE, !.seen = View(Load(args.script, quota_file, today))]
  /\ quota_file' = Load(args.script, quota_file, today)
  /\ UNCHANGED <<call, ret, args, today, excel, session, run, profiles, i, result,
                 usage, todo, tally>>

\* driver.quit and the summary, which loads the ledger once more
Summary ==
  /\ pc = "summary"
  /\ pc' = "done"
  /\ h' = [h EXCEPT !.summary = TRUE, !.seen = View(Load(args.script, quota_file, today))]
  /\ UNCHANGED <<call, ret, args, today, quota_file, excel, session, run, profiles, i, result,
                 usage, todo, tally>>

Next ==
  \/ Start
  \/ Loop
  \/ OutreachFlow
  \/ DmFlow
  \/ ConnectFlow
  \/ BothConnect
  \/ RetryDm
  \/ CommitLoad
  \/ CommitOpen
  \/ CommitDump
  \/ Status
  \/ Delay
  \/ Summary

\* one run of one script on one day
Spec == Init /\ [][Next]_vars

\* -------------------------------------------------- crashes, restarts, days
\* the process is killed, at any point of a run
Crash ==
  /\ pc \notin Terminal
  /\ pc' = "crashed"
  /\ h' = [h EXCEPT !.crashPoint = pc,
                    !.crash = IF pc = "status" /\ h.commit.done THEN h.commit ELSE NoCommit]
  /\ UNCHANGED <<call, ret, args, today, quota_file, excel, session, run, profiles, i, result,
                 usage, todo, tally>>

\* Midnight passes. The scripts notice the day only when they read date.today(),
\* in a load of the ledger, so the step is taken right before one that loads it
\* or between two runs.
NextDay ==
  /\ today < MaxDay
  /\ pc \in {"start", "loop", "commit_load", "delay", "summary"} \cup Terminal
  /\ today' = today + 1
  /\ h' = [h EXCEPT !.rolled = TRUE]
  /\ UNCHANGED <<call, ret, args, quota_file, excel, session, run, pc, profiles, i, result, usage,
                 todo, tally>>

\* the script is started again
NewRun ==
  /\ pc \in Terminal
  /\ run < MaxRuns
  /\ run' = run + 1
  /\ args' = args
  /\ pc' = "start"
  /\ profiles' = <<>>
  /\ i' = 0
  /\ result' = ""
  /\ usage' = Fresh(args.script, 0)
  /\ todo' = NoTodo
  /\ tally' = ZeroTally
  /\ session' = "ok"
  /\ h' = [InitHistory(args.script, quota_file) EXCEPT !.seen = h.seen, !.crash = h.crash]
  /\ UNCHANGED <<call, ret, today, quota_file, excel>>

NextCrash == Next \/ Crash \/ NewRun \/ NextDay

\* runs of one script, one after the other, that can be killed; days pass
SpecCrash == Init /\ [][NextCrash]_vars

\* ------------------------------------------------- faults of the two stores
\* open(path, 'w') of save_quota / save_usage raises (the file cannot be written)
CommitFault ==
  /\ pc = "commit_open"
  /\ Raised
  /\ UNCHANGED <<call, ret, args, today, quota_file, excel, session, run, profiles, i, result, usage>>

\* update_excel_status raises in the loop body (the sheet cannot be written)
StatusFault ==
  /\ pc = "status"
  /\ Raised
  /\ UNCHANGED <<call, ret, args, today, quota_file, excel, session, run, profiles, i, result, usage>>

\* update_excel_status raises inside the except block of linkedin_dm.py (line 556):
\* the exception reaches the except block of main (line 583), which exits
HandlerFault ==
  /\ pc = "handler"
  /\ pc' = "aborted"
  /\ UNCHANGED <<call, ret, args, today, quota_file, excel, session, run, profiles, i, result, usage,
                 todo, tally, h>>

NextFault == Next \/ CommitFault \/ StatusFault \/ HandlerFault

\* one run in which the writes of the quota file and of the sheet can fail
SpecFault == Init /\ [][NextFault]_vars

\* --------------------------------------------- helper functions on their own
\* The helpers below are called with arguments of their own, outside a run of
\* main(): `call` holds the helper and its argument, `ret` what it returned.

\* longest tail of a profile URL after the marker
MaxTail == 3

\* The `x = find(s1); if not x: x = find(s2); ...` chains of the flows. A chain is
\* given by what each of its strategies finds on the page (m[k]: strategy k matches);
\* `used` is the strategy whose first element is taken (0: none), `tried` the
\* strategies that were run.
\* connect: linkedin_outreach.py methods 1-5 and 7; add_note, textarea, send:
\* _handle_connect_modal; message, message_input: linkedin_dm.py send_dm
StrategyCount ==
  [connect |-> 6, add_note |-> 4, textarea |-> 5, send |-> 7, message |-> 2,
   message_input |-> 3]
LogicalTargets == DOMAIN StrategyCount

\* the chain without the `if not x` guards: every strategy runs, the last match wins
RECURSIVE resolve_unguarded(_, _, _, _)
resolve_unguarded(m, k, found, tried) ==
  IF k > Len(m) THEN [used |-> found, tried |-> tried]
  ELSE resolve_unguarded(m, k + 1, IF m[k] THEN k ELSE found, Append(tried, k))

RECURSIVE resolve(_, _, _, _)
resolve(m, k, found, tried) ==
  IF k > Len(m) THEN [used |-> found, tried |-> tried]
  ELSE IF found # 0 THEN resolve(m, k + 1, found, tried)
  ELSE resolve(m, k + 1, IF m[k] THEN k ELSE 0, Append(tried, k))

LocateInputs ==
  UNION {[target : {t}, matches : [1..StrategyCount[t] -> BOOLEAN]] : t \in LogicalTargets}

\* Texts are sequences of characters; Fill(n, c) is c repeated n times.
Fill(n, c) == [k \in 1..n |-> c]
\* python s[:n]
Take(s, n) == SubSeq(s, 1, Min(n, Len(s)))
Ellipsis == <<".", ".", ".">>

\* linkedin_outreach.py DEFAULT_MESSAGE (255 characters)
DEFAULT_MESSAGE == Fill(255, "d")
\* linkedin_dm.py connection_note and dm_message, built around args.resume
connection_note(resume) == Fill(65, "n") \o resume
dm_message(resume) == Fill(180, "m") \o resume \o Fill(36, "m")

\* linkedin_outreach.py main, lines 482-488: the default, then the trim to 300
message_or_default(m) == IF m = <<>> THEN DEFAULT_MESSAGE ELSE m
trim_message(m) == IF Len(m) > 300 THEN Take(m, 297) \o Ellipsis ELSE m

\* What each flow types for an argument `text` (--message for linkedin_outreach.py,
\* --resume for linkedin_dm.py): `text` is the full text built from it, `payload`
\* what is handed to send_keys, `again` the same cut applied to the payload.
Payload(flow, text) ==
  CASE flow = "send_direct_message" ->
         LET full == message_or_default(text)
             typed == Take(trim_message(full), 300)
         IN [text |-> full, payload |-> typed, again |-> Take(trim_message(typed), 300)]
    [] flow = "send_connection_with_note" ->
         LET full == connection_note(text)
             typed == Take(full, 300)
         IN [text |-> full, payload |-> typed, again |-> Take(typed, 300)]
    [] OTHER ->
         LET full == dm_message(text)
         IN [text |-> full, payload |-> full, again |-> full]

TextLengths == {0, 1, 3, 44, 45, 46, 83, 84, 85, 235, 297, 299, 300, 301, 303, 400}
PayloadInputs ==
  [flow : {"send_direct_message", "send_connection_with_note", "send_dm"},
   text : {Fill(n, c) : n \in TextLengths, c \in {"x", "."}}]

\* extract_public_id: a URL is None or a string, given by its characters
None == [none |-> TRUE, chars |-> <<>>]
Str(chars) == [none |-> FALSE, chars |-> chars]
Marker == <<"l", "i", "n", "k", "e", "d", "i", "n", ".", "c", "o", "m", "/", "i", "n", "/">>
Stop == {"/", "?"}

\* the class [^/] in place of [^/?]
RECURSIVE run_slash_only(_, _)
run_slash_only(s, j) ==
  IF j > Len(s) \/ s[j] = "/" THEN <<>> ELSE <<s[j]>> \o run_slash_only(s, j + 1)

\* ([^/?]+), greedy, from position j
RECURSIVE run_(_, _)
run_(s, j) == IF j > Len(s) \/ s[j] \in Stop THEN <<>> ELSE <<s[j]>> \o run_(s, j + 1)

\* re.search(r'linkedin\.com/in/([^/?]+)', s): the leftmost position where the
\* literal matches and the group is not empty; the result is the group, or None
RECURSIVE re_search(_, _)
re_search(s, k) ==
  IF k + Len(Marker) > Len(s) THEN None
  ELSE IF SubSeq(s, k, k + Len(Marker) - 1) = Marker /\ run_(s, k + Len(Marker)) # <<>>
    THEN Str(run_(s, k + Len(Marker)))
  ELSE re_search(s, k + 1)

\* extract_public_id of both scripts
extract_public_id(linkedin_url) ==
  IF linkedin_url.none \/ linkedin_url.chars = <<>> THEN None
  ELSE re_search(linkedin_url.chars, 1)

RECURSIVE Tails(_)
Tails(n) ==
  IF n = 0 THEN {<<>>}
  ELSE Tails(n - 1) \cup {Append(t, c) : t \in {u \in Tails(n - 1) : Len(u) = n - 1},
                                          c \in {"a", "/", "?"}}
UrlInputs ==
  {None} \cup
  {Str(pre \o mid \o tail) :
     pre \in {<<>>, <<"w", ".">>, Marker \o <<"/">>},
     mid \in {<<>>, Marker, SubSeq(Marker, 1, Len(Marker) - 1),
              [Marker EXCEPT ![9] = "x"]},
     tail \in Tails(MaxTail)}

\* the policies with one flow per target, and the results their flow returns
Policies == {"linkedin_outreach", "dm", "connect"}
FlowResults(policy) ==
  CASE policy = "linkedin_outreach" ->
         {IF send_direct_message(p).raised THEN "browser_error"
          ELSE send_direct_message(p).result : p \in OutPages}
    [] policy = "dm" -> {send_dm(p).result : p \in {q \in DmPages : ~q.getFault}}
    [] OTHER ->
         {send_connection_with_note(p).result : p \in {q \in ConnPages : ~q.getFault}}

\* the status main() hands to update_excel_status for a result; "" when it writes none
written_status(policy, res) ==
  LET o == CASE policy = "linkedin_outreach" -> outreach_outcome(res)
             [] policy = "dm" -> dm_outcome(res, "dm")
             [] OTHER -> connect_outcome(res)
  IN IF o.writes = <<>> THEN "" ELSE o.writes[1]

StatusInputs ==
  UNION {[policy : {pl}, r1 : FlowResults(pl), r2 : FlowResults(pl)] : pl \in Policies}

\* Pages a flow is called on: the pages of the run loop, and every page on which
\* no browser call fails, whatever controls it shows together.
DmClean == {p \in DmPagesAll : ~p.getFault /\ ~p.wall /\ p.fault = "none"}
ConnClean ==
  {p \in ConnPagesAll :
     /\ ~p.getFault /\ ~p.wall /\ p.fault = "none"
     /\ ~p.more => ~p.menu
     /\ ~p.addNote => ~p.textarea}
OutClean ==
  {p \in OutPagesAll :
     /\ ~p.getFault /\ ~p.urlFault /\ ~p.wall /\ p.fault = "none"
     /\ ~p.more => ~p.menu
     /\ ~p.addNote => ~p.textarea}
FlowInputs ==
  [flow : {"send_dm"}, page : DmPages \cup DmClean]
    \cup [flow : {"send_connection_with_note"}, page : ConnPages \cup ConnClean]
    \cup [flow : {"send_direct_message"}, page : OutPages \cup OutClean]

\* the flow called on the page: [result, trace, raised]
RunFlow(flow, p) ==
  CASE flow = "send_dm" -> send_dm(p)
    [] flow = "send_connection_with_note" -> send_connection_with_note(p)
    [] OTHER -> send_direct_message(p)

Calls ==
  [fn : {"locate"}, arg : LocateInputs] \cup [fn : {"payload"}, arg : PayloadInputs]
    \cup [fn : {"extract_public_id"}, arg : UrlInputs]
    \cup [fn : {"status"}, arg : StatusInputs]
    \cup [fn : {"flow"}, arg : FlowInputs]

\* every variable of main() at rest
AtRest ==
  /\ args = [script |-> "linkedin_outreach", mode |-> "none", limit |-> 1]
  /\ today = 1
  /\ quota_file = [kind |-> "absent", date |-> 0, cnt |-> ZeroCnt("linkedin_outreach")]
  /\ excel = [r \in Rows |-> ""]
  /\ session = "ok"
  /\ run = 1
  /\ pc = "helper"
  /\ profiles = <<>>
  /\ i = 0
  /\ result = ""
  /\ usage = Fresh("linkedin_outreach", 0)
  /\ todo = NoTodo
  /\ tally = ZeroTally
  /\ h = InitHistory("linkedin_outreach", quota_file)

InitHelper == AtRest /\ call \in Calls /\ ret = NoRet

Returns(v) ==
  /\ pc = "helper"
  /\ ~ret.done
  /\ ret' = [done |-> TRUE, val |-> v]
  /\ UNCHANGED <<call, args, today, quota_file, excel, session, run, pc, profiles, i,
                 result, usage, todo, tally, h>>

CallLocate ==
  /\ call.fn = "locate"
  /\ Returns(resolve(call.arg.matches, 1, 0, <<>>))

CallPayload ==
  /\ call.fn = "payload"
  /\ Returns(Payload(call.arg.flow, call.arg.text))

CallExtract ==
  /\ call.fn = "extract_public_id"
  /\ Returns(extract_public_id(call.arg))

CallStatus ==
  /\ call.fn = "status"
  /\ Returns(<<written_status(call.arg.policy, call.arg.r1),
               written_status(call.arg.policy, call.arg.r2)>>)

CallFlow ==
  /\ call.fn = "flow"
  /\ Returns(RunFlow(call.arg.flow, call.arg.page))

NextHelper == CallLocate \/ CallPayload \/ CallExtract \/ CallStatus \/ CallFlow

\* one call of one helper
SpecHelper == InitHelper /\ [][NextHelper]_vars


\* ------------------------------------------------------------- properties
BetweenAttempts == pc \in {"loop", "delay", "summary", "done"}
Committing == pc \in {"commit_load", "commit_open", "commit_dump"}
LastFlow == h.flows[Len(h.flows)]

\* C1: the ledger is committed once for each attempt that ended Sent and for no
\* other: main() is in a commit only after a flow returned a sent result, for the
\* action type of that flow, and between two attempts and at the end of the run the
\* count of each action type is its count at the start of the run plus the number
\* of Sent results of that type.
C1_CommitIffSent ==
  /\ Committing =>
       /\ h.flows # <<>>
       /\ SentResult(LastFlow, result)
       /\ todo.type = FlowType(LastFlow)
  /\ BetweenAttempts =>
       \A t \in Types(args.script) :
         Load(args.script, quota_file, today).cnt[t] = h.startCnt[t] + h.nSent[t]

C1_Witness ==
  /\ pc = "done"
  /\ args.mode = "both"
  /\ h.nSent["messages"] = 1
  /\ h.nSent["connections"] = 1
  /\ quota_file.cnt["messages"] = 1
  /\ quota_file.cnt["connections"] = DAILY_CONNECTION_LIMIT

\* C2: a flow starts only while the allowance of its action type is not used up:
\* send_dm while remaining('messages') > 0, send_connection_with_note while
\* remaining('connections') > 0, send_direct_message while the remaining quota > 0.
C2_FlowOnlyWithQuota ==
  /\ (pc = "flow" /\ args.script = "linkedin_outreach") =>
       get_remaining_quota_sent(quota_file, today) > 0
  /\ ((pc = "flow" /\ args.mode \in {"dm", "both"}) \/ pc = "retry") =>
       get_remaining_quota(quota_file, today, "messages") > 0
  /\ ((pc = "flow" /\ args.mode = "connect") \/ pc = "conn") =>
       get_remaining_quota(quota_file, today, "connections") > 0

\* C3: for a quota record of another day, the remaining quota of every action type
\* is the full daily limit, whatever count the record holds.
C3_RolloverReset ==
  (quota_file.kind = "ok" /\ quota_file.date # today) =>
     \A t \in Types(args.script) :
       Remaining(args.script, quota_file, today, t) = Limit(t)

C3_Witness ==
  /\ pc = "loop"
  /\ quota_file.kind = "ok"
  /\ quota_file.date # today
  /\ \A t \in Types(args.script) : quota_file.cnt[t] >= Limit(t)
  /\ Len(profiles) = MaxTargets

\* C4: a process killed during a commit leaves a complete record, the old or the
\* new one, never an empty file.
C4_CommitAtomic ==
  (pc = "crashed" /\ h.crashPoint \in {"commit_open", "commit_dump"}) =>
     /\ quota_file.kind # "empty"
     /\ Load(args.script, quota_file, h.commit.day).cnt \in {h.commit.pre, usage.cnt}

\* C5: after a crash right after the write of a commit, and in the run started
\* after it, the file holds the counts loaded before the commit with the committed
\* type one higher, under the day of the commit, and a load on that day gives them.
C5_CrashAfterCommit ==
  h.crash.type # "" =>
     /\ quota_file.kind = "ok"
     /\ quota_file.date = h.crash.day
     /\ quota_file.cnt = [h.crash.pre EXCEPT ![h.crash.type] = @ + 1]
     /\ today = h.crash.day =>
          Load(args.script, quota_file, today).cnt[h.crash.type] = h.crash.pre[h.crash.type] + 1

C5_Witness ==
  /\ run = 2
  /\ pc = "exited"
  /\ h.crash.type = "messages"
  /\ h.crash.pre["messages"] = DAILY_MESSAGE_LIMIT - 1
  /\ today = h.crash.day

\* C6: the count the program sees (the result of a load, or of a commit) never goes
\* down as long as the day it is seen on is the same, and is zero when it is first
\* seen on another day.
C6_SeenMonotone ==
  [][/\ h'.seen.day = h.seen.day =>
          \A t \in Types(args.script) : h'.seen.cnt[t] >= h.seen.cnt[t]
     /\ h'.seen.day # h.seen.day =>
          \A t \in Types(args.script) : h'.seen.cnt[t] = 0]_vars

C6_Witness ==
  /\ args.script = "linkedin_outreach"
  /\ run = 2
  /\ h.seen.day = 2
  /\ h.seen.cnt["sent"] = 0
  /\ quota_file.kind = "ok"
  /\ quota_file.date = 1
  /\ quota_file.cnt["sent"] = 1

\* C7: once a target met the authentication wall, the run goes to no other target,
\* writes no status of another target and does not change the ledger.
C7_StopAtWall ==
  [][(h.wall # 0 /\ h'.wall = h.wall) =>
       /\ h'.attempted = h.attempted
       /\ quota_file' = quota_file
       /\ \A r \in Rows \ {h.wall} : excel'[r] = excel[r]]_vars

\* C8: every target whose attempt is over has had a status written in this run.
C8_EveryAttemptRecorded ==
  \A k \in 1..Len(h.attempted) :
    (k < Len(h.attempted) \/ BetweenAttempts) => h.attempted[k] \in h.recorded

\* C9: one attempt has at most one terminal classification and at most one status
\* written; once its flows are over it has exactly one classification.
C9_OneTerminal ==
  /\ h.writes <= 1
  /\ h.terminals <= 1
  /\ pc \in {"conn", "retry"} => h.terminals = 0
  /\ (Committing \/ pc \in {"status", "handler", "delay"}) => h.terminals = 1
  /\ (pc = "summary" /\ result # "") => h.terminals = 1
  /\ pc = "delay" => h.writes = h.terminals

C9_Witness ==
  /\ pc = "delay"
  /\ h.flows = <<"send_dm", "send_connection_with_note", "send_dm">>
  /\ h.writes = 1
  /\ h.terminals = 1

\* C10: a fault while one target is handled never ends the run: main() does not
\* leave by an exception once the loop is entered.
C10_FaultNeverAborts == ~(pc = "aborted" /\ i >= 1)

\* C11: when the quota of the action type the run is gated on is used up at the
\* start of the run, no target is attempted: no flow is invoked, no status is
\* written, the ledger stays as it was, and the summary is produced with every
\* counter at zero.
C11_ExhaustedNoAttempt ==
  (pc = "exited" /\ h.cause = "quota") =>
     /\ h.attempted = <<>>
     /\ h.flows = <<>>
     /\ h.recorded = {}
     /\ Load(args.script, quota_file, today).cnt = h.startCnt
     /\ tally = ZeroTally
     /\ h.summary

\* C12: a run that ends because no target is left to contact, because the quota is
\* used up (at the gate or in the loop), because the session expired, or because
\* every loaded target was handled, has produced the summary.
C12_SummaryAtEveryExit ==
  (pc \in {"done", "exited"} /\ h.cause \in {"empty", "quota", "session", "drained"}) =>
     h.summary

\* the policies that only send connection requests: linkedin_dm.py --mode connect,
\* and linkedin_outreach.py, whose one flow is the connection request
ConnectOnly == args.script = "linkedin_outreach" \/ args.mode = "connect"
\* browser steps that only load the page
LoadSteps == {"get", "refresh"}

\* C13: under a connect-only policy, when the page of the target shows a message
\* control the flow returns already_connected having done nothing but load the
\* page (no connect, add-a-note, typing or send step), and main() goes on to the
\* status write without a ledger commit.
C13_AlreadyConnected ==
  (ConnectOnly /\ h.probe = "message") =>
     /\ result = "already_connected"
     /\ \A k \in 1..Len(h.trace) : h.trace[k] \in LoadSteps
     /\ pc = "status"
     /\ todo.type = ""
     /\ \A t \in Types(args.script) :
          Load(args.script, quota_file, today).cnt[t] = h.startCnt[t] + h.nSent[t]

C13_Witness ==
  /\ args.mode = "connect"
  /\ \E p \in ConnPages : p.msg /\ p.connect /\ p.addNote /\ p.send
  /\ h.probe = "message"
  /\ h.flows = <<"send_connection_with_note">>
  /\ result = "already_connected"
  /\ pc = "status"
  /\ todo.writes = <<"already_connected">>

\* the flows that send a connection request, the results with which they report
\* that nothing to act on was found, and the steps of the invitation modal
ConnectFlows == {"send_connection_with_note", "send_direct_message"}
NoActionableResults == {"no_connect_button", "no_send_button"}
ModalSteps == {"click_add_note", "type_note", "click_send"}

\* C14: when the page shows no message, pending, connect (direct or in the More
\* menu) or follow control, the connection flow ends with a no-actionable-control
\* result without an add-a-note, typing or send step, and main() writes a status,
\* commits nothing and goes on with the loop.
C14_NoActionableControl ==
  (h.probe = "none" /\ h.flows # <<>> /\ LastFlow \in ConnectFlows) =>
     /\ result \in NoActionableResults
     /\ \A k \in 1..Len(h.trace) : h.trace[k] \notin ModalSteps
     /\ pc = "status"
     /\ todo.type = ""
     /\ todo.writes # <<>>

\* the flow invocations one attempt of mode 'both' can be made of
BothFlows ==
  {<<>>, <<"send_dm">>, <<"send_dm", "send_connection_with_note">>,
   <<"send_dm", "send_connection_with_note", "send_dm">>}

\* C15 as stated: in mode 'both' the connection flow runs at most once and only
\* after send_dm returned not_connected, send_dm is retried at most once and only
\* after the connection flow returned already_connected, and one attempt makes at
\* most one ledger commit.
C15_ConnectOnlyAfterNotConnected ==
  args.mode = "both" =>
     /\ h.flows \in BothFlows
     /\ pc = "conn" => (h.flows = <<"send_dm">> /\ result = "not_connected")
     /\ pc = "retry" => (h.flows = <<"send_dm", "send_connection_with_note">>
                          /\ result = "already_connected")
     /\ h.commits <= 1

\* C15, amended: the connection flow runs only after send_dm found no Message
\* button, whether it saw a Connect button (not_connected) or not
\* (no_message_button); the rest as stated.
C15_ConnectOnlyAfterNoMessageButton ==
  args.mode = "both" =>
     /\ h.flows \in BothFlows
     /\ pc = "conn" => (h.flows = <<"send_dm">>
                         /\ result \in {"not_connected", "no_message_button"})
     /\ pc = "retry" => (h.flows = <<"send_dm", "send_connection_with_note">>
                          /\ result = "already_connected")
     /\ h.commits <= 1

C15_Witness ==
  /\ args.mode = "both"
  /\ pc = "status"
  /\ h.flows = <<"send_dm", "send_connection_with_note", "send_dm">>
  /\ result = "sent_enter"
  /\ h.commits = 1

\* C16: in a chain of locator strategies the strategy used is the first, in the
\* fixed order, that matches; the strategies before it were tried, in order, and
\* none after it; when none matches all were tried and nothing is used.
C16_Precedence ==
  (call.fn = "locate" /\ ret.done) =>
     LET m == call.arg.matches
         hits == {k \in 1..Len(m) : m[k]}
         v == ret.val
     IN /\ hits = {} => (v.used = 0 /\ v.tried = [k \in 1..Len(m) |-> k])
        /\ hits # {} =>
             /\ v.used \in hits
             /\ \A k \in hits : v.used <= k
             /\ v.tried = [k \in 1..v.used |-> k]

C16_Witness ==
  /\ call.fn = "locate"
  /\ ret.done
  /\ call.arg.target = "send"
  /\ call.arg.matches = <<FALSE, FALSE, TRUE, FALSE, FALSE, TRUE, TRUE>>
  /\ ret.val = [used |-> 3, tried |-> <<1, 2, 3>>]

\* C17: the text handed to send_keys is at most 300 characters long; a text longer
\* than 300 is cut to exactly 300 whose last three are the ellipsis, a text of at
\* most 300 is handed over as it is, and cutting the payload again changes nothing.
C17_PayloadWithinLimit ==
  (call.fn = "payload" /\ ret.done) =>
     LET v == ret.val
     IN /\ Len(v.payload) <= 300
        /\ Len(v.text) > 300 =>
             (Len(v.payload) = 300 /\ SubSeq(v.payload, 298, 300) = Ellipsis)
        /\ Len(v.text) <= 300 => v.payload = v.text
        /\ v.again = v.payload

\* positions of s where the marker stands and a character other than '/' and '?'
\* follows it
FollowedAt(s) ==
  {k \in 1..Len(s) :
     /\ k + Len(Marker) <= Len(s)
     /\ SubSeq(s, k, k + Len(Marker) - 1) = Marker
     /\ s[k + Len(Marker)] \notin Stop}

\* C18: extract_public_id returns None for None, for the empty string and for a
\* string in which the marker is nowhere followed by a character other than '/'
\* and '?'; otherwise it returns the characters after the first such marker up to
\* the next '/' or '?' or the end: a non-empty string without '/' and '?'.
C18_ExtractTotal ==
  (call.fn = "extract_public_id" /\ ret.done) =>
     LET s == call.arg.chars
         v == ret.val
     IN /\ (call.arg.none \/ s = <<>> \/ FollowedAt(s) = {}) => v = None
        /\ (~call.arg.none /\ FollowedAt(s) # {}) =>
             LET k == CHOOSE j \in FollowedAt(s) : \A l \in FollowedAt(s) : j <= l
                 from == k + Len(Marker)
                 to == from + Len(v.chars) - 1
             IN /\ ~v.none
                /\ v.chars # <<>>
                /\ \A j \in 1..Len(v.chars) : v.chars[j] \notin Stop
                /\ to <= Len(s)
                /\ v.chars = SubSeq(s, from, to)
                /\ (to = Len(s) \/ s[to + 1] \in Stop)

C18_Witness ==
  /\ call.fn = "extract_public_id"
  /\ ret.done
  /\ call.arg = Str(Marker \o <<"/">> \o Marker \o <<"a", "?", "a">>)
  /\ ret.val = Str(<<"a">>)

\* the classification of a result string
Classification(res) ==
  CASE res \in {"sent", "sent_enter"} -> "sent"
    [] res \in {"already_connected", "pending", "follow_only", "not_connected",
                "session_expired"} -> res
    [] OTHER -> "failure"

\* C20: two results of different classifications (sent, already-connected,
\* pending, follow-only, not-connected, session-expired, failure) never get the
\* same status from main().
C20_StatusDistinguishes ==
  (call.fn = "status" /\ ret.done) =>
     (Classification(call.arg.r1) # Classification(call.arg.r2) =>
        ret.val[1] # ret.val[2])

\* C19: for every quota record the file can hold, also one with a count above the
\* limit, and for no file at all, the remaining quota of an action type is an
\* integer from 0 to the daily limit of that type.
C19_RemainingInRange ==
  ~LoadRaises(quota_file) =>
     \A t \in Types(args.script) :
       Remaining(args.script, quota_file, today, t) \in 0..Limit(t)

C19_Witness ==
  /\ args.script = "linkedin_dm"
  /\ quota_file.kind = "ok"
  /\ quota_file.date = today
  /\ quota_file.cnt["connections"] = DAILY_CONNECTION_LIMIT + 1
  /\ get_remaining_quota(quota_file, today, "connections") = 0
  /\ pc = "done"

\* ---------------------------------------------------------------------------
\* Properties of one flow call (SpecHelper, call.fn = "flow")

FlowDone(flows) == call.fn = "flow" /\ ret.done /\ call.arg.flow \in flows
ConnectClicks == {"click_connect", "click_menu_connect"}
Steps(tr) == {tr[k] : k \in 1..Len(tr)}

\* C21: a connection flow clicks the send control, and returns 'sent', only after
\* it clicked a connect control (the direct one or the More-menu item) earlier in
\* the same call.
C21_SendOnlyAfterConnect ==
  FlowDone(ConnectFlows) =>
    LET tr == ret.val.trace IN
      /\ \A k \in 1..Len(tr) :
           tr[k] = "click_send" => \E j \in 1..(k - 1) : tr[j] \in ConnectClicks
      /\ ~ret.val.raised /\ ret.val.result = "sent" => "click_send" \in Steps(tr)

\* what main() may do with the result of a connection flow
ConnectOutcomes(flow, res) ==
  IF flow = "send_direct_message" THEN {outreach_outcome(res)}
  ELSE {connect_outcome(res), both_connect_outcome(res)}

\* C22: when the add-a-note control was clicked and the page holds no note field,
\* the connection flow does not click the send control and does not return 'sent';
\* when it finds no send control it returns a failure, for which main() writes a
\* failed status and commits nothing.
C22_StepFailed ==
  FlowDone(ConnectFlows) =>
    LET tr == ret.val.trace
        res == ret.val.result
    IN /\ ("click_add_note" \in Steps(tr) /\ ~call.arg.page.textarea) =>
            /\ "click_send" \notin Steps(tr)
            /\ ~ret.val.raised => res # "sent"
       /\ (~ret.val.raised /\ res = "no_send_button") =>
            \A o \in ConnectOutcomes(call.arg.flow, res) :
              o.next = "status" /\ o.type = "" /\ o.bump = "failures"

\* how a connection flow classified the target: by its result, or "connect" when
\* it went on to click a connect control
Classified(v) ==
  CASE v.result = "already_connected" -> "message"
    [] v.result = "pending" -> "pending"
    [] Steps(v.trace) \cap ConnectClicks # {} -> "connect"
    [] v.result = "follow_only" -> "follow"
    [] OTHER -> "none"

\* C23: on every page where no browser call fails, whatever subset of the message,
\* pending, connect, More-menu connect and follow controls it shows, a connection
\* flow classifies the target by the first control present in the order message,
\* pending, connect, follow, none; and when a message or pending control is
\* present it clicks nothing.
C23_ProbePriority ==
  (FlowDone(ConnectFlows) /\ Relation(call.arg.flow, call.arg.page) # "unknown") =>
    /\ Classified(ret.val) = Relation(call.arg.flow, call.arg.page)
    /\ (call.arg.page.msg \/ call.arg.page.pending) => Steps(ret.val.trace) \subseteq LoadSteps

\* the steps of send_dm in their order
DmOrder == <<{"get"}, {"click_message"}, {"type"}, {"click_send", "submit_enter"}>>
InOrder(tr) == Len(tr) <= Len(DmOrder) /\ \A k \in 1..Len(tr) : tr[k] \in DmOrder[k]
Submits == {"click_send", "submit_enter"}
\* the search for the message button ran and found none
NoMessageControl(p) ==
  ~p.getFault /\ p.fault # "probe" /\ ~p.msgSpan /\ ~p.msgAria
\* the message button was clicked and the input area found
InputFound(p) ==
  ~p.getFault /\ p.fault \notin {"probe", "click"} /\ (p.msgSpan \/ p.msgAria) /\ p.input
\* a submitted message is committed as a message and recorded as dm_sent, by the
\* first call (both modes) and by the retry
CountsAsSent(v) ==
  (Steps(v.trace) \cap Submits # {}) =>
    /\ ~v.raised /\ v.result \in DmSentResults
    /\ \A o \in {dm_outcome(v.result, "dm"), dm_outcome(v.result, "both"),
                 retry_outcome(v.result)} :
         o.next = "commit" /\ o.type = "messages" /\ o.writes = <<"dm_sent">>

C25_NoRaise ==
  FlowDone({"send_dm", "send_connection_with_note", "send_direct_message"}) => ~ret.val.raised

\* C26: when a connection flow found no connect control, its search left the page
\* as it was: it clicked nothing, and the More menu was not opened.
C26_ResolveReadOnly ==
  (FlowDone(ConnectFlows) /\ Steps(ret.val.trace) \cap ConnectClicks = {}) =>
    "click_more" \notin Steps(ret.val.trace)

\* ---------------------------------------------------------------------------
\* Properties of one run, continued

Count(tr, steps) == Cardinality({k \in 1..Len(tr) : tr[k] \in steps})
UiSteps ==
  {"click_message", "type", "submit_enter", "click_send", "click_connect", "click_more",
   "click_menu_connect", "click_add_note", "type_note"}

AttemptFollows ==
  /\ i <= Len(profiles)
  /\ args.script = "linkedin_outreach" => get_remaining_quota_sent(quota_file, today) > 0

\* C28: when main() slept at the end of an iteration, the loop head that follows
\* starts another attempt: there is no sleep before the loop ends by running out
\* of profiles or of quota, and the end of an iteration is not reached at all
\* after an attempt that found the session expired.
C28_DelayOnlyBetweenAttempts ==
  /\ (pc = "loop" /\ h.delayed) => AttemptFollows
  /\ pc = "delay" => result # "session_expired"
C28_Witness ==
  pc = "loop" /\ h.delayed /\ i = 2 /\ Len(profiles) = 2 /\ Len(h.attempted) = 1

Navigating == pc \in {"flow", "conn", "retry"}

\* C29: main() does one thing at a time. The status of a sent result is written
\* only after its ledger commit is finished; while a flow navigates, no commit and
\* no status write of the run is under way or outstanding: the earlier profiles
\* have their status and the ledger holds every sent result so far; and a commit
\* is one load, one increment and one save, with no other access to the ledger
\* file between its load and its save.
C29_OneActionInFlight ==
  /\ (pc = "status" /\ todo.next = "commit") =>
       (h.commit.done /\ h.commit.type = todo.type /\ quota_file = usage /\ h.writes = 0)
  /\ (h.writes > 0 /\ todo.next = "commit") => h.commits = 1
  /\ h.commits <= 1
  /\ Navigating =>
       /\ h.commits = 0 /\ h.writes = 0 /\ h.commit = NoCommit /\ todo.writes = <<>>
       /\ \A k \in 1..(i - 1) : profiles[k] \in h.recorded
       /\ \A t \in Types(args.script) :
            Load(args.script, quota_file, today).cnt[t] = h.startCnt[t] + h.nSent[t]
  /\ pc = "commit_open" =>
       (h.commits = 0 /\ Load(args.script, quota_file, today).cnt = h.commit.pre)
C29_Witness ==
  /\ pc = "flow" /\ i = 2
  /\ todo.next = "commit"
  /\ profiles[1] \in h.recorded
  /\ \E t \in Types(args.script) : h.nSent[t] = 1

\* the persisted record is of another day than today
Stale == quota_file.kind = "ok" /\ quota_file.date # today

\* C30: the ledger file changes only in the save of a commit. The loads at the
\* start of a run and in the summary leave the file as it is, and when the
\* persisted record is of another day they return a record of today with zero
\* counts while the file keeps the old record.
C30_LazyRollover ==
  [][/\ quota_file' # quota_file => pc \in {"commit_open", "commit_dump"}
     /\ (pc \in {"start", "summary"} /\ pc' \notin {pc, "crashed"} /\ Stale) =>
          /\ h'.seen = [day |-> today, cnt |-> ZeroCnt(args.script)]
          /\ quota_file' = quota_file]_vars
C30_Witness ==
  /\ pc = "done" /\ h.summary
  /\ Stale
  /\ h.seen = [day |-> today, cnt |-> ZeroCnt(args.script)]
  /\ \E t \in Types(args.script) : quota_file.cnt[t] > 0

\* the counts of day d in file f: those of the record when it is of day d, zero
\* when it is of another day or when there is no record
CountsOn(f, d) == IF f.kind = "ok" /\ f.date = d THEN f.cnt ELSE ZeroCnt(args.script)

\* C31: a commit that returns adds exactly one. The record it builds from the
\* file holds today's date and the counts of today in the file with the committed
\* type one higher (so count one after a record of an earlier day or no record);
\* its save puts that record in the file, and a load on that day gives it back.
C31_CommitAddsOne ==
  [][/\ (pc = "commit_load" /\ pc' = "commit_open") =>
          /\ usage'.kind = "ok" /\ usage'.date = today
          /\ usage'.cnt = [CountsOn(quota_file, today) EXCEPT ![todo.type] = @ + 1]
     /\ (pc = "commit_dump" /\ pc' = "status") =>
          /\ quota_file' = usage
          /\ today' = usage.date
          /\ Load(args.script, quota_file', today') = usage
          /\ CountsOn(quota_file', today')[todo.type] = h.commit.pre[todo.type] + 1]_vars
C31_Witness ==
  /\ pc = "status" /\ h.commit.done
  /\ h.startCnt = ZeroCnt(args.script) /\ h.nSent[todo.type] = 1
  /\ h.seen.day = today
  /\ quota_file = [kind |-> "ok", date |-> today,
                   cnt |-> [ZeroCnt(args.script) EXCEPT ![todo.type] = 1]]

\* the ledger commits made in the run so far, over all action types
CommitsMade ==
  LET c == Load(args.script, quota_file, today).cnt IN
    IF args.script = "linkedin_dm"
      THEN (c["messages"] - h.startCnt["messages"]) + (c["connections"] - h.startCnt["connections"])
      ELSE c["sent"] - h.startCnt["sent"]

\* C32: when the loop is over, the counters of the summary add up to the number of
\* targets attempted, and the sent counters add up to the number of ledger commits
\* made in the run.
C32_SummaryAccounts ==
  pc \in {"summary", "done"} =>
    /\ tally.success + tally.connect + tally.failures = Len(h.attempted)
    /\ tally.success + tally.connect = CommitsMade

\* C33: the record of today in the ledger file never holds more than the daily
\* limit of an action type.
C33_WithinDailyLimit ==
  (quota_file.kind = "ok" /\ quota_file.date = today) =>
     \A t \in Types(args.script) : quota_file.cnt[t] <= Limit(t)

\* C34: when the process is killed, the ledger file holds, for every action type,
\* at least the count of the start of the run plus the actions of that type
\* submitted in the run (the day not having changed during the run), so that the
\* run started next on that day does not see fewer actions than were made.
C34_NoUnderCount ==
  (pc = "crashed" /\ ~h.rolled) =>
     /\ ~LoadRaises(quota_file)
     /\ \A t \in Types(args.script) :
          CountsOn(quota_file, today)[t] >= h.startCnt[t] + h.nSent[t]

SuccessStatus == {"sent", "dm_sent", "connect_sent"}
\* the rows a run started now would load as pending, whatever its --limit
Pending == LET q == load_profiles_from_excel(args.script, excel, MaxTargets)
           IN {q[k] : k \in 1..Len(q)}
\* the process was killed between the ledger commit of a sent action and the
\* write of its status
KilledAfterSent ==
  /\ pc = "crashed"
  /\ h.crashPoint = "status"
  /\ h.flows # <<>> /\ SentResult(LastFlow, result)

\* C35: a row whose status is a success status is not loaded as pending, and the
\* row of an attempt whose action was submitted is not loaded as pending by the
\* next run, also when the process was killed before the status was written.
C35_NeverSentTwice ==
  /\ \A r \in Rows : excel[r] \in SuccessStatus => r \notin Pending
  /\ KilledAfterSent => profiles[i] \notin Pending

\* setup_driver has returned in this run: main() reached the login, which it does
\* once the quota gate is passed and the sheet gave a profile
BrowserStarted == i >= 1 \/ h.cause = "login"
\* driver.quit was called: after a failed login, or after the loop
BrowserQuit == h.cause = "login" \/ h.summary

\* C36: when main() has ended, by its end, by a return, by sys.exit or by an
\* exception, a browser that was started has been quit.
C36_BrowserReleased ==
  (pc \in {"done", "exited", "aborted"} /\ BrowserStarted) => BrowserQuit

\* the remaining quota of the gated action type at the start of the run
RemainingAtStart == Max(0, Limit(GateType(args)) - h.startCnt[GateType(args)])

\* C37: the targets attempted in a run are the first profiles of the list the
\* sheet gave, one after the other, the list is in the order of the sheet's rows,
\* and their number is at most the smaller of --limit and the remaining quota at
\* the start of the run.
C37_AttemptedWithinLimit ==
  /\ Len(h.attempted) <= Min(args.limit, RemainingAtStart)
  /\ Len(h.attempted) <= Len(profiles)
  /\ \A k \in 1..Len(h.attempted) : h.attempted[k] = profiles[k]
  /\ \A j, k \in 1..Len(profiles) : j < k => profiles[j] < profiles[k]
C37_Witness ==
  /\ run = 2 /\ pc = "done"
  /\ args.limit = MaxTargets
  /\ RemainingAtStart = 1
  /\ excel[1] # ""
  /\ h.attempted = <<2>>

\* C38: in linkedin_dm.py a commit on a record of today changes the count of the
\* committed type only: the record it builds, and the file after its save, hold
\* the other type's count and the date as the file held them before.
C38_OtherTypeUnchanged ==
  [][args.script = "linkedin_dm" =>
       /\ (pc = "commit_load" /\ pc' = "commit_open" /\ quota_file.kind = "ok"
             /\ quota_file.date = today) =>
            /\ usage'.date = quota_file.date
            /\ h'.commit.pre = quota_file.cnt
            /\ \A t \in Types(args.script) \ {todo.type} : usage'.cnt[t] = quota_file.cnt[t]
       /\ (pc = "commit_dump" /\ pc' = "status") =>
            /\ quota_file'.date = h.commit.day
            /\ \A t \in Types(args.script) \ {h.commit.type} :
                 quota_file'.cnt[t] = h.commit.pre[t]]_vars
C38_Witness ==
  /\ args.script = "linkedin_dm"
  /\ pc = "status" /\ h.commit.done /\ h.commit.type = "connections"
  /\ h.commit.pre = [messages |-> DAILY_MESSAGE_LIMIT - 1, connections |-> 0]
  /\ quota_file = [kind |-> "ok", date |-> today,
                   cnt |-> [messages |-> DAILY_MESSAGE_LIMIT - 1, connections |-> 1]]

\* How far main() is from its end. Within one iteration the stages go down from
\* the loop head to the delay; every further profile adds one iteration.
Stage ==
  CASE pc = "loop" -> 12
    [] pc = "flow" -> 11
    [] pc = "conn" -> 10
    [] pc = "retry" -> 9
    [] pc = "commit_load" -> 8
    [] pc = "commit_open" -> 7
    [] pc = "commit_dump" -> 6
    [] pc = "status" -> 3 + Len(todo.writes)
    [] pc = "handler" -> 2 + Len(todo.writes)
    [] OTHER -> 1
Rank ==
  IF pc \in Terminal THEN 0
  ELSE IF pc = "summary" THEN 1
  ELSE IF pc = "start" THEN 15 + 12 * MaxTargets
  ELSE 2 + 12 * (Len(profiles) - i) + Stage

\* C39: every step of a run brings it nearer to its end: the rank, which is zero
\* when main() has ended and never negative, goes down with every step, so a run
\* ends after a bounded number of steps; one attempt is at most three flows, and
\* the loop makes at most one iteration for each loaded profile.
C39_Terminates ==
  [][/\ Rank' < Rank
     /\ Rank' >= 0
     /\ Len(h'.flows) <= 3
     /\ i' <= Len(profiles') + 1
     /\ Len(h'.attempted) <= Len(profiles')]_vars
C39_Witness ==
  /\ pc = "done"
  /\ Len(profiles) = MaxTargets
  /\ i = MaxTargets + 1
  /\ Len(h.attempted) = MaxTargets

============================================================================
